---- MODULE Spec2Model ----
(***************************************************************************)
(* Model of chain/src/types.rs: Lineage, Tip, their binary serialization   *)
(* and the ChainStore contract the block pipeline drives.                  *)
(*                                                                         *)
(* Unsigned integers keep their width.  A u32 is a pair of 16-bit limbs    *)
(* and a u64 four 16-bit limbs, most significant limb first, so that the   *)
(* largest values (2^32-1, 2^64-1) are ordinary values of the model.       *)
(***************************************************************************)
EXTENDS Naturals, Sequences, FiniteSets

VARIABLES
    tips,       \* Spec: every Tip value alive in the process, in creation order
    hist,       \* Spec: how tips[i] was obtained: <<"new", g>>, <<"append", i, bh>>, <<"read">>
    panic,      \* Spec: "none", or the abort that ended the process
    branch,     \* Spec: result of the latest last_branch() call, <<>> before any
    subject,    \* SpecSer: the Tip whose encoding is under test
    stream,     \* SpecSer: the byte stream handed to the reader
    wrote,      \* SpecSer: what the stream was written from: "none", "tip", "lineage"
    cut,        \* SpecSer: "whole", "truncated" or "count" (count field overwritten)
    res,        \* SpecSer: <<>> before a read, else <<kind, result>> of the latest read
    head,       \* SpecStore: the canonical head Tip
    saved,      \* SpecStore: the Tips saved with save_tip, one per lineage
    blocks,     \* SpecStore: saved blocks, each [id, prev, height, lineage]
    nextBranch, \* SpecStore: next unused branch number
    outcome     \* SpecStore: what the latest block acceptance did

tipVars == <<tips, hist, panic, branch>>
serVars == <<subject, stream, wrote, cut, res>>
storeVars == <<head, saved, blocks, nextBranch, outcome>>
vars == <<tips, hist, panic, branch, subject, stream, wrote, cut, res,
          head, saved, blocks, nextBranch, outcome>>

----------------------------------------------------------------------------
(* Bounds *)

MaxTips == 4
MaxLineage == 2
MaxBlocks == 4

----------------------------------------------------------------------------
(* Fixed-width unsigned integers *)

LimbBase == 256 * 256

U32FromNat(n) == <<n \div LimbBase, n % LimbBase>>

U64FromNat(n) == <<0, 0, n \div LimbBase, n % LimbBase>>

MaxU32 == <<LimbBase - 1, LimbBase - 1>>

MaxU64 == <<LimbBase - 1, LimbBase - 1, LimbBase - 1, LimbBase - 1>>

RECURSIVE LimbsInc(_)
\* x + 1 modulo 2^(16 * Len(x))
LimbsInc(x) ==
    IF x = <<>> THEN <<>>
    ELSE LET n == Len(x) IN
         IF x[n] + 1 < LimbBase
         THEN [x EXCEPT ![n] = x[n] + 1]
         ELSE Append(LimbsInc(SubSeq(x, 1, n - 1)), 0)

RECURSIVE LimbsLt(_, _)
\* a < b for two numbers of the same width
LimbsLt(a, b) ==
    IF a = <<>> THEN FALSE
    ELSE IF a[1] # b[1] THEN a[1] < b[1]
    ELSE LimbsLt(Tail(a), Tail(b))

Ok(v) == <<v>>
Err == <<>>

----------------------------------------------------------------------------
(* Block identifiers: Hash is a fixed array of HashLen bytes *)

HashLen == 32

HashOf(n) == [i \in 1..HashLen |-> (n * i) % 256]

Hashes == {HashOf(1), HashOf(2)}

----------------------------------------------------------------------------
(* Lineage *)

LineageNew == <<U32FromNat(0)>>

LineageClone(l) == [i \in 1..Len(l) |-> l[i]]

\* self.0.last().unwrap(): None (the panic) on an empty vector
LastBranch(l) == IF Len(l) = 0 THEN Err ELSE Ok(l[Len(l)])

----------------------------------------------------------------------------
(* Tip *)

TipNewHeightOne(gbh) ==
    [height |-> U64FromNat(1), last_block_h |-> gbh, prev_block_h |-> gbh,
     lineage |-> LineageNew]

TipNew(gbh) ==
    [height |-> U64FromNat(0), last_block_h |-> gbh, prev_block_h |-> gbh,
     lineage |-> LineageNew]

TipAppendKeepsPrev(self, bh) ==
    [height |-> LimbsInc(self.height), last_block_h |-> bh,
     prev_block_h |-> self.prev_block_h, lineage |-> LineageClone(self.lineage)]

TipAppendKeepsHeight(self, bh) ==
    [height |-> self.height, last_block_h |-> bh,
     prev_block_h |-> self.last_block_h, lineage |-> LineageClone(self.lineage)]

\* The Tip append builds; self.height + 1 is computed in 64 bits
TipAppendValue(self, bh) ==
    [height |-> LimbsInc(self.height), last_block_h |-> bh,
     prev_block_h |-> self.last_block_h, lineage |-> LineageClone(self.lineage)]

\* The outcomes of self.append(bh): Ok(tip), or Err for the overflow panic.
\* self.height + 1 at 2^64-1 panics in a build with overflow checks and wraps
\* to 0 in a build without.
TipAppend(self, bh) ==
    IF self.height = MaxU64
    THEN {Err, Ok(TipAppendValue(self, bh))}
    ELSE {Ok(TipAppendValue(self, bh))}

StoreInPlace(ts, i, t) == [Append(ts, t) EXCEPT ![i] = t]

\* append takes &self and returns a new value: the result is a new object
\* and the receiver ts[i] is not written
StoreResult(ts, i, t) == Append(ts, t)

----------------------------------------------------------------------------
(* Serialization: ser::Writer / ser::Reader primitives, big-endian *)

LimbBytes(l) == <<l \div 256, l % 256>>

RECURSIVE LimbsBytes(_)
LimbsBytes(x) == IF x = <<>> THEN <<>> ELSE LimbBytes(x[1]) \o LimbsBytes(Tail(x))

WriteU32(x) == LimbsBytes(x)
WriteU64(x) == LimbsBytes(x)
WriteFixedBytes(h) == h

\* A reader position is the number of bytes consumed so far.
ReadLimbs(bytes, pos, n) ==
    IF pos + 2 * n > Len(bytes) THEN Err
    ELSE Ok([val |-> [i \in 1..n |-> bytes[pos + 2 * i - 1] * 256 + bytes[pos + 2 * i]],
             pos |-> pos + 2 * n])

ReadU32(bytes, pos) == ReadLimbs(bytes, pos, 2)
ReadU64(bytes, pos) == ReadLimbs(bytes, pos, 4)

HashRead(bytes, pos) ==
    IF pos + HashLen > Len(bytes) THEN Err
    ELSE Ok([val |-> SubSeq(bytes, pos + 1, pos + HashLen), pos |-> pos + HashLen])

RECURSIVE WriteBranches(_)
WriteBranches(l) == IF l = <<>> THEN <<>> ELSE WriteU32(l[1]) \o WriteBranches(Tail(l))

LineageWrite(l) == WriteU32(U32FromNat(Len(l))) \o WriteBranches(l)

RECURSIVE ReadBranches(_, _, _, _, _)
\* for _ in 0..len { branches.push(try!(reader.read_u32())) }
ReadBranches(bytes, pos, len, i, branches) ==
    IF U32FromNat(i) = len THEN Ok([val |-> branches, pos |-> pos])
    ELSE LET r == ReadU32(bytes, pos) IN
         IF r = Err THEN Err
         ELSE ReadBranches(bytes, r[1].pos, len, i + 1, Append(branches, r[1].val))

RECURSIVE ReadBranchesLenient(_, _, _, _, _)
ReadBranchesLenient(bytes, pos, len, i, branches) ==
    IF U32FromNat(i) = len THEN Ok([val |-> branches, pos |-> pos])
    ELSE LET r == ReadU32(bytes, pos) IN
         IF r = Err THEN Ok([val |-> branches, pos |-> pos])
         ELSE ReadBranchesLenient(bytes, r[1].pos, len, i + 1, Append(branches, r[1].val))

LineageReadLenient(bytes, pos) ==
    LET len == ReadU32(bytes, pos) IN
    IF len = Err THEN Ok([val |-> <<>>, pos |-> pos])
    ELSE ReadBranchesLenient(bytes, len[1].pos, len[1].val, 0, <<>>)

LineageRead(bytes, pos) ==
    LET len == ReadU32(bytes, pos) IN
    IF len = Err THEN Err
    ELSE ReadBranches(bytes, len[1].pos, len[1].val, 0, <<>>)

TipWritePrevFirst(t) ==
    WriteU64(t.height) \o WriteFixedBytes(t.prev_block_h)
        \o WriteFixedBytes(t.last_block_h) \o LineageWrite(t.lineage)

TipWrite(t) ==
    WriteU64(t.height) \o WriteFixedBytes(t.last_block_h)
        \o WriteFixedBytes(t.prev_block_h) \o LineageWrite(t.lineage)

TipRead(bytes, pos) ==
    LET height == ReadU64(bytes, pos) IN
    IF height = Err THEN Err ELSE
    LET last == HashRead(bytes, height[1].pos) IN
    IF last = Err THEN Err ELSE
    LET prev == HashRead(bytes, last[1].pos) IN
    IF prev = Err THEN Err ELSE
    LET line == LineageRead(bytes, prev[1].pos) IN
    IF line = Err THEN Err ELSE
    Ok([val |-> [height |-> height[1].val, last_block_h |-> last[1].val,
                 prev_block_h |-> prev[1].val, lineage |-> line[1].val],
        pos |-> line[1].pos])

----------------------------------------------------------------------------
(* Input values *)

Heights == {U64FromNat(0), <<1, 515, 1029, 1543>>, MaxU64}

BranchNumbers == {U32FromNat(0), <<1, 515>>}

RECURSIVE SeqsUpTo(_, _)
SeqsUpTo(S, n) ==
    IF n = 0 THEN {<<>>}
    ELSE LET shorter == SeqsUpTo(S, n - 1) IN
         shorter \cup {Append(s, x) : s \in shorter, x \in S}

\* Byte streams a peer or a file may hold: well-formed Tip records with a
\* small or the largest height and an empty or a two-branch lineage
StoredTips ==
    {[height |-> h, last_block_h |-> HashOf(1), prev_block_h |-> HashOf(2), lineage |-> l] :
        h \in {U64FromNat(1), MaxU64}, l \in {<<>>, <<U32FromNat(0), <<1, 515>>>>}}

TipStreams == {TipWrite(t) : t \in StoredTips}

----------------------------------------------------------------------------
(* Spec: Tip values built by new, append and deserialization *)

serIdle ==
    /\ subject = TipNew(HashOf(1))
    /\ stream = <<>>
    /\ wrote = "none"
    /\ cut = "whole"
    /\ res = <<>>

storeIdle ==
    /\ head = TipNew(HashOf(1))
    /\ saved = {}
    /\ blocks = {}
    /\ nextBranch = 1
    /\ outcome = "none"

tipIdle ==
    /\ tips = <<>>
    /\ hist = <<>>
    /\ panic = "none"
    /\ branch = <<>>

Init == tipIdle /\ serIdle /\ storeIdle

New(gbh) ==
    /\ panic = "none"
    /\ Len(tips) < MaxTips
    /\ tips' = Append(tips, TipNew(gbh))
    /\ hist' = Append(hist, <<"new", gbh>>)
    /\ UNCHANGED <<panic, branch>>
    /\ UNCHANGED serVars /\ UNCHANGED storeVars

AppendBlock(i, bh) ==
    /\ panic = "none"
    /\ Len(tips) < MaxTips
    /\ \E out \in TipAppend(tips[i], bh) :
          IF out = Err
          THEN /\ panic' = "overflow"
               /\ UNCHANGED <<tips, hist>>
          ELSE /\ tips' = StoreResult(tips, i, out[1])
               /\ hist' = Append(hist, <<"append", i, bh>>)
               /\ UNCHANGED panic
    /\ UNCHANGED branch
    /\ UNCHANGED serVars /\ UNCHANGED storeVars

Deserialize(bytes) ==
    /\ panic = "none"
    /\ Len(tips) < MaxTips
    /\ LET r == TipRead(bytes, 0) IN
          /\ r # Err
          /\ tips' = Append(tips, r[1].val)
          /\ hist' = Append(hist, <<"read">>)
    /\ UNCHANGED <<panic, branch>>
    /\ UNCHANGED serVars /\ UNCHANGED storeVars

CallLastBranch(i) ==
    /\ panic = "none"
    /\ LET b == LastBranch(tips[i].lineage) IN
          IF b = Err
          THEN panic' = "last_branch" /\ UNCHANGED branch
          ELSE branch' = b /\ UNCHANGED panic
    /\ UNCHANGED <<tips, hist>>
    /\ UNCHANGED serVars /\ UNCHANGED storeVars

Next ==
    \/ \E gbh \in Hashes : New(gbh)
    \/ \E i \in 1..Len(tips), bh \in Hashes : AppendBlock(i, bh)
    \/ \E bytes \in TipStreams : Deserialize(bytes)
    \/ \E i \in 1..Len(tips) : CallLastBranch(i)

Spec == Init /\ [][Next]_vars

----------------------------------------------------------------------------
(* SpecSer: a Tip or its Lineage is written, the bytes are possibly damaged, *)
(* and a Tip or a Lineage is read back                                      *)

SubjectTips ==
    {[height |-> h, last_block_h |-> last, prev_block_h |-> HashOf(2), lineage |-> l] :
        h \in Heights, last \in Hashes, l \in SeqsUpTo(BranchNumbers, MaxLineage)}

\* Offset of the lineage's count field in the stream
CountOffset == IF wrote = "tip" THEN 8 + 2 * HashLen ELSE 0

InitSer ==
    /\ tipIdle /\ storeIdle
    /\ subject \in SubjectTips
    /\ stream = <<>>
    /\ wrote = "none"
    /\ cut = "whole"
    /\ res = <<>>

SerWriteTip ==
    /\ wrote = "none"
    /\ stream' = TipWrite(subject)
    /\ wrote' = "tip"
    /\ UNCHANGED <<subject, cut, res>>
    /\ UNCHANGED tipVars /\ UNCHANGED storeVars

SerWriteLineage ==
    /\ wrote = "none"
    /\ stream' = LineageWrite(subject.lineage)
    /\ wrote' = "lineage"
    /\ UNCHANGED <<subject, cut, res>>
    /\ UNCHANGED tipVars /\ UNCHANGED storeVars

\* The stream ends early: only its first n bytes arrive
Truncate(n) ==
    /\ wrote # "none" /\ res = <<>> /\ cut # "truncated"
    /\ n < Len(stream)
    /\ stream' = SubSeq(stream, 1, n)
    /\ cut' = "truncated"
    /\ UNCHANGED <<subject, wrote, res>>
    /\ UNCHANGED tipVars /\ UNCHANGED storeVars

\* The stream announces another count than the writer wrote
OverwriteCount(c) ==
    /\ wrote # "none" /\ res = <<>> /\ cut = "whole"
    /\ c # U32FromNat(Len(subject.lineage))
    /\ stream' = SubSeq(stream, 1, CountOffset) \o WriteU32(c)
                    \o SubSeq(stream, CountOffset + 5, Len(stream))
    /\ cut' = "count"
    /\ UNCHANGED <<subject, wrote, res>>
    /\ UNCHANGED tipVars /\ UNCHANGED storeVars

SerReadTip ==
    /\ wrote # "none" /\ res = <<>>
    /\ res' = <<"tip", TipRead(stream, 0)>>
    /\ UNCHANGED <<subject, stream, wrote, cut>>
    /\ UNCHANGED tipVars /\ UNCHANGED storeVars

SerReadLineage ==
    /\ wrote # "none" /\ res = <<>>
    /\ res' = <<"lineage", LineageRead(stream, 0)>>
    /\ UNCHANGED <<subject, stream, wrote, cut>>
    /\ UNCHANGED tipVars /\ UNCHANGED storeVars

Counts == {U32FromNat(0), U32FromNat(1), U32FromNat(MaxLineage + 1), MaxU32}

NextSer ==
    \/ SerWriteTip
    \/ SerWriteLineage
    \/ \E n \in 0..(8 + 2 * HashLen + 4 + 4 * MaxLineage) : Truncate(n)
    \/ \E c \in Counts : OverwriteCount(c)
    \/ SerReadTip
    \/ SerReadLineage

SpecSer == InitSer /\ [][NextSer]_vars

----------------------------------------------------------------------------
(* SpecStore: the block pipeline accepting blocks into a ChainStore *)

Genesis == HashOf(1)

BlockIds == {HashOf(n) : n \in 1..(MaxBlocks + 1)}

\* save_block: saving an identifier already stored leaves the store as it is
SaveBlock(bs, b) == IF \E x \in bs : x.id = b.id THEN bs ELSE bs \cup {b}

\* save_tip: one non-head Tip per fork
SaveTip(sv, t) == {x \in sv : x.lineage # t.lineage} \cup {t}

PromotesOnTie(newTip, cur) == ~LimbsLt(newTip.height, cur.height)

\* The fork of newTip becomes canonical when it is strictly higher
Promotes(newTip, cur) == LimbsLt(cur.height, newTip.height)

KnownTips == {head} \cup saved

HasBlock(id) == \E x \in blocks : x.id = id

BlockOf(id) == CHOOSE x \in blocks : x.id = id

BlockRecord(newTip) ==
    [id |-> newTip.last_block_h, prev |-> newTip.prev_block_h,
     height |-> newTip.height, lineage |-> newTip.lineage]

InitStore ==
    /\ tipIdle /\ serIdle
    /\ head = TipNew(Genesis)
    /\ saved = {}
    /\ blocks = {BlockRecord(TipNew(Genesis))}
    /\ nextBranch = 1
    /\ outcome = "none"

\* save_tip(newTip), then save_head(newTip) when the promotion rule says so
StageAndPromote(newTip, what) ==
    /\ blocks' = SaveBlock(blocks, BlockRecord(newTip))
    /\ saved' = SaveTip(saved, newTip)
    /\ IF Promotes(newTip, head)
       THEN head' = newTip /\ outcome' = "reorg"
       ELSE UNCHANGED head /\ outcome' = what

\* The parent is the head of the canonical Tip
ExtendHead(b, p) ==
    /\ ~HasBlock(b) /\ b # p
    /\ head.last_block_h = p
    /\ \E out \in TipAppend(head, b) :
          /\ out # Err
          /\ blocks' = SaveBlock(blocks, BlockRecord(out[1]))
          /\ head' = out[1]
    /\ outcome' = "extended"
    /\ UNCHANGED <<saved, nextBranch>>
    /\ UNCHANGED tipVars /\ UNCHANGED serVars

\* The parent is the head of a Tip that is not canonical
ExtendSideFork(b, p) ==
    /\ ~HasBlock(b) /\ b # p
    /\ head.last_block_h # p
    /\ \E t \in saved :
          /\ t.last_block_h = p
          /\ \E out \in TipAppend(t, b) :
                out # Err /\ StageAndPromote(out[1], "side")
    /\ UNCHANGED nextBranch
    /\ UNCHANGED tipVars /\ UNCHANGED serVars

\* The parent is a stored block that is the head of no Tip
Diverge(b, p) ==
    /\ ~HasBlock(b) /\ b # p
    /\ \A t \in KnownTips : t.last_block_h # p
    /\ HasBlock(p)
    /\ StageAndPromote(
          [height |-> LimbsInc(BlockOf(p).height), last_block_h |-> b,
           prev_block_h |-> p,
           lineage |-> Append(BlockOf(p).lineage, U32FromNat(nextBranch))],
          "diverged")
    /\ nextBranch' = nextBranch + 1
    /\ UNCHANGED tipVars /\ UNCHANGED serVars

\* The parent is unknown: "not found", nothing is written
RejectOrphan(b, p) ==
    /\ ~HasBlock(b) /\ b # p
    /\ ~HasBlock(p)
    /\ outcome' = "not_found"
    /\ UNCHANGED <<head, saved, blocks, nextBranch>>
    /\ UNCHANGED tipVars /\ UNCHANGED serVars

NextStore ==
    \/ \E b \in BlockIds, p \in BlockIds : ExtendHead(b, p)
    \/ \E b \in BlockIds, p \in BlockIds : ExtendSideFork(b, p)
    \/ \E b \in BlockIds, p \in BlockIds : Diverge(b, p)
    \/ \E b \in BlockIds, p \in BlockIds : RejectOrphan(b, p)

SpecStore == InitStore /\ [][NextStore]_vars

----------------------------------------------------------------------------
(* Properties of Spec *)

IsNew(j) == hist[j][1] = "new"
IsAppend(j) == hist[j][1] = "append"

RECURSIVE FromNew(_)
\* tips[j] was derived from a Tip::new by appends alone
FromNew(j) == IsNew(j) \/ (IsAppend(j) /\ FromNew(hist[j][2]))

RECURSIVE Appends(_)
\* the number of appends between the Tip tips[j] started from and tips[j]
Appends(j) == IF IsAppend(j) THEN Appends(hist[j][2]) + 1 ELSE 0

IsPrefix(a, b) == Len(a) <= Len(b) /\ SubSeq(b, 1, Len(a)) = a

\* C1: Tip::new(G) has height 0, head and parent identifier G and the
\* lineage [0], for every genesis identifier G.
C1_NewTip ==
    \A j \in 1..Len(tips) :
        IsNew(j) =>
            /\ tips[j].height = <<0, 0, 0, 0>>
            /\ tips[j].last_block_h = hist[j][2]
            /\ tips[j].prev_block_h = hist[j][2]
            /\ tips[j].lineage = << <<0, 0>> >>

C1_Witness ==
    \E j, k \in 1..Len(tips) : IsNew(j) /\ IsNew(k) /\ hist[j][2] # hist[k][2]

\* C2: t.append(b) has head identifier b, parent identifier t's head
\* identifier and the same lineage elements in the same order as t.
C2_AppendFields ==
    \A j \in 1..Len(tips) :
        IsAppend(j) =>
            /\ tips[j].last_block_h = hist[j][3]
            /\ tips[j].prev_block_h = tips[hist[j][2]].last_block_h
            /\ tips[j].lineage = tips[hist[j][2]].lineage

C2_Witness ==
    \E j \in 1..Len(tips) :
        /\ IsAppend(j)
        /\ tips[hist[j][2]].last_block_h # tips[hist[j][2]].prev_block_h
        /\ Len(tips[hist[j][2]].lineage) = 2

\* C3: along successive appends from Tip::new(g) the k-th derived Tip has
\* height exactly k, its parent identifier is the head identifier of the Tip
\* it was derived from, and its lineage stays [0].
C3_HeightIsAppendCount ==
    \A j \in 1..Len(tips) :
        FromNew(j) =>
            /\ tips[j].height = <<0, 0, 0, Appends(j)>>
            /\ tips[j].lineage = << <<0, 0>> >>
            /\ IsAppend(j) => tips[j].prev_block_h = tips[hist[j][2]].last_block_h

C3_Witness ==
    \E j \in 1..Len(tips) : FromNew(j) /\ Appends(j) = 3

\* C8: append leaves its receiver, and every other Tip, unchanged: a step
\* that appends keeps every Tip that existed before it as it was.
C8_AppendFrame ==
    [][(Len(hist') > Len(hist) /\ hist'[Len(hist')][1] = "append") =>
          \A i \in 1..Len(tips) : tips'[i] = tips[i]]_vars

C8_Witness ==
    \E i, j, k, m \in 1..Len(tips) :
        /\ IsAppend(j) /\ hist[j][2] = i
        /\ j < k /\ j < m /\ k # m
        /\ IsAppend(k) /\ hist[k][2] = i
        /\ IsAppend(m) /\ hist[m][2] = j

DifferInFinal(a, b) == a # <<>> /\ b # <<>> /\ a[Len(a)] # b[Len(b)]

\* C6: two Tips derived from the same ancestor Tip via two different
\* successor blocks have lineages that share the ancestor's lineage as a
\* prefix and differ in at least the final element.
C6_DivergenceNewLineage ==
    \A j, k \in 1..Len(tips) :
        (/\ IsAppend(j) /\ IsAppend(k)
         /\ hist[j][2] = hist[k][2]
         /\ hist[j][3] # hist[k][3]) =>
            /\ IsPrefix(tips[hist[j][2]].lineage, tips[j].lineage)
            /\ IsPrefix(tips[hist[j][2]].lineage, tips[k].lineage)
            /\ DifferInFinal(tips[j].lineage, tips[k].lineage)

\* C9: every Lineage obtained through new, append's clone or a successful
\* deserialization holds at least one branch number, and last_branch()
\* never aborts.
C9_LineageNonEmpty ==
    /\ \A j \in 1..Len(tips) : Len(tips[j].lineage) >= 1
    /\ panic # "last_branch"

\* C10: for every Tip t that can exist, t.append(b).height is t.height + 1,
\* strictly greater than t.height, and append never aborts.
C10_HeightNeverWraps ==
    /\ \A j \in 1..Len(tips) :
          IsAppend(j) => LimbsLt(tips[hist[j][2]].height, tips[j].height)
    /\ panic # "overflow"

----------------------------------------------------------------------------
(* Properties of SpecSer *)

\* The count the stream announces at offset pos, when it holds one, is
\* larger than the number of whole u32 elements that follow it
LineageCutShort(bytes, pos) ==
    \/ Len(bytes) < pos + 4
    \/ /\ Len(bytes) >= pos + 4
       /\ LET hi == bytes[pos + 1] * 256 + bytes[pos + 2]
              lo == bytes[pos + 3] * 256 + bytes[pos + 4]
          IN  \/ hi > 0 /\ Len(bytes) < 4 * LimbBase
              \/ hi = 0 /\ Len(bytes) - (pos + 4) < 4 * lo

\* C4: reading the bytes written by L.write yields the elements of L (and
\* the same last_branch), and reading the bytes written by t.write yields
\* t's height, head, parent and lineage; the whole stream is consumed.
C4_RoundTrip ==
    (res # <<>> /\ cut = "whole" /\ res[1] = wrote) =>
        /\ res[2] # Err
        /\ res[2][1].pos = Len(stream)
        /\ wrote = "tip" =>
              /\ res[2][1].val.height = subject.height
              /\ res[2][1].val.last_block_h = subject.last_block_h
              /\ res[2][1].val.prev_block_h = subject.prev_block_h
              /\ res[2][1].val.lineage = subject.lineage
              /\ LastBranch(res[2][1].val.lineage) = LastBranch(subject.lineage)
        /\ wrote = "lineage" =>
              /\ res[2][1].val = subject.lineage
              /\ LastBranch(res[2][1].val) = LastBranch(subject.lineage)

C4_Witness ==
    /\ res # <<>> /\ cut = "whole" /\ res[1] = "tip" /\ wrote = "tip"
    /\ subject.last_block_h # subject.prev_block_h
    /\ subject.height = MaxU64
    /\ Len(subject.lineage) = 2 /\ subject.lineage[1] # subject.lineage[2]
    /\ res[2] # Err

----------------------------------------------------------------------------
(* Properties of SpecStore *)

HeadIsHighest == \A t \in saved : ~LimbsLt(head.height, t.height)

\* C7: after any sequence of block acceptances the head's height is greater
\* than or equal to the height of every other saved Tip, and the head is
\* replaced only by a strictly higher Tip (it is kept on a tie).
C7_CanonicalHead ==
    /\ []HeadIsHighest
    /\ [][head' # head => LimbsLt(head.height, head'.height)]_vars

C7_Witness ==
    /\ Len(head.lineage) >= 2
    /\ outcome = "diverged"
    /\ \E t \in saved : t.lineage # head.lineage /\ t.height = head.height

====
